---- MODULE Spec2Model ----
(***************************************************************************)
(* The command-line dispatcher of GoEdge (cmd/goedge/main.go, kept at the  *)
(* end of src/internal/os_examples.go): main's switch over os.Args[1],     *)
(* showHelp's topic table and runAllExamples' topic table.                 *)
(*                                                                         *)
(* A printed line is the sequence of the text pieces that the call hands   *)
(* to fmt (colour codes included), so the key and the description of a     *)
(* help line stay recognisable.  The demonstration routines are opaque:    *)
(* a call of one either returns or panics; panicAt is the position in calls *)
(* of the call that panicked (0 when none did).  topics is the local slice  *)
(* of runAllExamples, empty until that function is entered.  writer names,  *)
(* line by line of out, the function whose fmt call printed the line.      *)
(* prev is a history variable: the finished run of the process before this *)
(* one, kept only under SpecHistory.  Emoji in labels are left out.        *)
(*                                                                         *)
(* After the dispatcher come the library types of internal/reflection.go   *)
(* (CircularBuffer, SlidingWindow, SafeSlice) and the concurrent           *)
(* demonstrations racConditionExample, goroutinePoolExample,               *)
(* pipelineContextExample, producerConsumerExample and                     *)
(* operationWithTimeout, each with a specification of its own that starts  *)
(* from InitLibrary and leaves the dispatcher at rest.                     *)
(***************************************************************************)
EXTENDS Integers, Sequences, FiniteSets, TLC

VARIABLES osArgs, pc, idx, topics, calls, out, writer, outcome, exitCode,
          panicAt, prev

vars == <<osArgs, pc, idx, topics, calls, out, writer, outcome, exitCode,
          panicAt, prev>>

\* The state of the library types and of the concurrent demonstrations, each
\* checked under a specification of its own: cb and sw are the structs of
\* that name, safe is a SafeSlice with the goroutines that use it; race,
\* pool, pipe, prodcons and owt hold the shared memory, channels and
\* goroutines of racConditionExample, goroutinePoolExample,
\* pipelineContextExample, producerConsumerExample and operationWithTimeout.
\* cbObs and swObs record the last call made on cb and sw and its result.
VARIABLES cb, cbObs, sw, swObs, safe, race, pool, pipe, prodcons, owt

demoVars == <<cb, cbObs, sw, swObs, safe, race, pool, pipe, prodcons, owt>>

(***************************************************************************)
(* Bounds of the model.                                                    *)
(***************************************************************************)
\* how many further arguments may follow the topic on the command line
MaxExtraArgs == 1

\* the words used for further arguments
ExtraArgs == {"all", "verbose"}

\* requests that no case of the switch names
UnknownRequests == {"bogus", "", "Pointers", "ALL", "json ", "version"}

\* the requests of the runs that are observed in pairs: a case with a header,
\* the case without one, the meta-topic and two unknown requests
HistoryRequests == {"json", "colors", "all", "bogus", ""}

\* the unknown requests that differ from a key of the switch only in letter
\* case or by a surrounding character, each with that key
NearMisses ==
  { [request |-> "Pointers", key |-> "pointers"],
    [request |-> "ALL",      key |-> "all"],
    [request |-> "json ",    key |-> "json"] }

(***************************************************************************)
(* internal/colors.go                                                      *)
(***************************************************************************)
ColorReset == "ESC[0m"
ColorRed == "ESC[31m"
ColorYellow == "ESC[33m"
ColorBlue == "ESC[34m"
ColorCyan == "ESC[36m"
ColorBold == "ESC[1m"
ColorDim == "ESC[2m"

Yellow(text) == <<ColorYellow>> \o text \o <<ColorReset>>
Cyan(text) == <<ColorCyan>> \o text \o <<ColorReset>>
Bold(text) == <<ColorBold>> \o text \o <<ColorReset>>
Dim(text) == <<ColorDim>> \o text \o <<ColorReset>>
ErrorText(text) == <<ColorRed, "X ">> \o text \o <<ColorReset>>
InfoText(text) == <<ColorBlue, "i  ">> \o text \o <<ColorReset>>
Header(text) == <<ColorBold, ColorCyan>> \o text \o <<ColorReset>>
Subtitle(text) == <<ColorBold, ColorYellow>> \o text \o <<ColorReset>>

\* repeat(s, count): count copies of s
repeat(s, count) == [k \in 1..count |-> s]

(***************************************************************************)
(* main: the cases of the switch, in source order.  title is the header    *)
(* the case prints before the call ("" when it prints none), fn the        *)
(* function it calls.                                                      *)
(***************************************************************************)
SwitchCases ==
  << [key |-> "pointers",   title |-> "Running Pointer Examples:",                  fn |-> "RunPointerExamples"],
     [key |-> "functions",  title |-> "Running Function Examples:",                 fn |-> "RunFunctionExamples"],
     [key |-> "arrays",     title |-> "Running Array & Slice Examples:",            fn |-> "RunArraySliceExamples"],
     [key |-> "maps",       title |-> "Running Map Examples:",                      fn |-> "RunMapExamples"],
     [key |-> "defer",      title |-> "Running Defer/Panic/Recover Examples:",      fn |-> "RunDeferPanicRecoverExamples"],
     [key |-> "strings",    title |-> "Running String Formatting Examples:",        fn |-> "RunStringFormattingExamples"],
     [key |-> "methods",    title |-> "Running Method Examples:",                   fn |-> "RunMethodExamples"],
     [key |-> "structs",    title |-> "Running Structs Examples:",                  fn |-> "RunStructureExamples"],
     [key |-> "interfaces", title |-> "Running Interface Examples:",                fn |-> "RunInterfaceExamples"],
     [key |-> "errors",     title |-> "Running Errors Examples:",                   fn |-> "RunErrorHandlingExamples"],
     [key |-> "goroutines", title |-> "Running Goroutine Examples:",                fn |-> "RunGoroutineExamples"],
     [key |-> "channels",   title |-> "Running Channel Examples:",                  fn |-> "RunChannelExamples"],
     [key |-> "packages",   title |-> "Running Package System Examples:",           fn |-> "RunPackageSystemExamples"],
     [key |-> "embedding",  title |-> "Running Embedding & Composition Examples:",  fn |-> "RunEmbeddingCompositionExamples"],
     [key |-> "reflection", title |-> "Running Reflection Examples:",               fn |-> "RunReflectionExamples"],
     [key |-> "context",    title |-> "Running Context Examples:",                  fn |-> "RunContextExamples"],
     [key |-> "json",       title |-> "Running JSON & Serialization Examples:",     fn |-> "RunJSONSerializationExamples"],
     [key |-> "fileio",     title |-> "Running File I/O & Readers/Writers Examples:", fn |-> "RunFileIOExamples"],
     [key |-> "os",         title |-> "Running OS Package Examples:",               fn |-> "RunOSExamples"],
     [key |-> "io",         title |-> "Running IO Package Examples:",               fn |-> "RunIOExamples"],
     [key |-> "ioutil",     title |-> "Running IO/ioutil Package Examples:",        fn |-> "RunIOUtilExamples"],
     [key |-> "system",     title |-> "Running System Interaction Examples:",       fn |-> "RunOSPackageExamples"],
     [key |-> "streams",    title |-> "Running I/O Streams Examples:",              fn |-> "RunIOPackageExamples"],
     [key |-> "colors",     title |-> "",                                           fn |-> "ColorExamples"],
     [key |-> "all",        title |-> "",                                           fn |-> "runAllExamples"] >>

(***************************************************************************)
(* showHelp: the topics table.                                             *)
(***************************************************************************)
\* a topics table in which an entry was copied without being renamed
HelpTopicsDuplicate ==
  << [name |-> "pointers",   desc |-> "Pointer examples"],
     [name |-> "json",       desc |-> "JSON & Serialization examples"],
     [name |-> "json",       desc |-> "File I/O & Readers/Writers examples"],
     [name |-> "all",        desc |-> "Run all examples"] >>

HelpTopics ==
  << [name |-> "pointers",   desc |-> "Pointer examples"],
     [name |-> "functions",  desc |-> "Function examples"],
     [name |-> "arrays",     desc |-> "Array & Slice examples"],
     [name |-> "maps",       desc |-> "Map examples"],
     [name |-> "defer",      desc |-> "Defer/Panic/Recover examples"],
     [name |-> "strings",    desc |-> "String formatting examples"],
     [name |-> "structs",    desc |-> "Structs examples"],
     [name |-> "methods",    desc |-> "Method examples"],
     [name |-> "interfaces", desc |-> "Interface examples"],
     [name |-> "errors",     desc |-> "Errors examples"],
     [name |-> "goroutines", desc |-> "Goroutine examples"],
     [name |-> "channels",   desc |-> "Channel examples"],
     [name |-> "packages",   desc |-> "Package System & Imports examples"],
     [name |-> "embedding",  desc |-> "Embedding & Composition examples"],
     [name |-> "reflection", desc |-> "Reflection examples"],
     [name |-> "context",    desc |-> "Context Package examples"],
     [name |-> "json",       desc |-> "JSON & Serialization examples"],
     [name |-> "fileio",     desc |-> "File I/O & Readers/Writers examples"],
     [name |-> "os",         desc |-> "OS Package examples"],
     [name |-> "io",         desc |-> "IO Package examples"],
     [name |-> "ioutil",     desc |-> "IO/ioutil Package examples"],
     [name |-> "system",     desc |-> "System Interaction examples"],
     [name |-> "streams",    desc |-> "I/O Streams examples"],
     [name |-> "colors",     desc |-> "Color examples"],
     [name |-> "all",        desc |-> "Run all examples"] >>

(***************************************************************************)
(* runAllExamples: the topics table.                                       *)
(***************************************************************************)
AllTopics ==
  << [name |-> "Pointers",                  fn |-> "RunPointerExamples"],
     [name |-> "Functions",                 fn |-> "RunFunctionExamples"],
     [name |-> "Arrays & Slices",           fn |-> "RunArraySliceExamples"],
     [name |-> "Maps",                      fn |-> "RunMapExamples"],
     [name |-> "Defer/Panic/Recover",       fn |-> "RunDeferPanicRecoverExamples"],
     [name |-> "String Formatting",         fn |-> "RunStringFormattingExamples"],
     [name |-> "Methods",                   fn |-> "RunMethodExamples"],
     [name |-> "Structs",                   fn |-> "RunStructureExamples"],
     [name |-> "Interfaces",                fn |-> "RunInterfaceExamples"],
     [name |-> "Errors",                    fn |-> "RunErrorHandlingExamples"],
     [name |-> "Goroutines",                fn |-> "RunGoroutineExamples"],
     [name |-> "Channels",                  fn |-> "RunChannelExamples"],
     [name |-> "Package System",            fn |-> "RunPackageSystemExamples"],
     [name |-> "Embedding & Composition",   fn |-> "RunEmbeddingCompositionExamples"],
     [name |-> "Reflection",                fn |-> "RunReflectionExamples"],
     [name |-> "Context",                   fn |-> "RunContextExamples"],
     [name |-> "JSON & Serialization",      fn |-> "RunJSONSerializationExamples"],
     [name |-> "File I/O & Readers/Writers", fn |-> "RunFileIOExamples"],
     [name |-> "OS Package",                fn |-> "RunOSExamples"],
     [name |-> "IO Package",                fn |-> "RunIOExamples"],
     [name |-> "IO/ioutil Package",         fn |-> "RunIOUtilExamples"],
     [name |-> "System Interaction",        fn |-> "RunOSPackageExamples"],
     [name |-> "I/O Streams",               fn |-> "RunIOPackageExamples"] >>

(***************************************************************************)
(* showHelp                                                                *)
(***************************************************************************)
\* fmt.Printf("  %s - %s\n", internal.Yellow(topic.name), topic.desc)
TopicLine(t) == <<"  ">> \o Yellow(<<t.name>>) \o <<" - ", t.desc>>

\* the five prints before the topics table
HelpHeader ==
  << Header(<<"Golang Review Project">>),
     <<"Version: ", "version", " (commit: ", "commit", ")">>,
     Cyan(<<"=">> \o repeat("=", 40)),
     Bold(<<"Usage:">>) \o <<" ", "go run ./cmd/goedge <topic>">>,
     <<"\n">> \o Subtitle(<<"Available topics:">>) >>

\* the print after the loop
HelpExample == <<"\n">> \o InfoText(<<"Example: go run ./cmd/goedge json">>)

\* a showHelp that returns before the range loop over topics
showHelpNoTopics == HelpHeader

\* a showHelp whose table is used up by the first listing: a later process
\* lists no topics
showHelpOnce ==
  IF Len(prev.args) = 0
  THEN HelpHeader \o [j \in 1..Len(HelpTopics) |-> TopicLine(HelpTopics[j])]
         \o <<HelpExample>>
  ELSE HelpHeader \o <<HelpExample>>

\* the lines one call of showHelp prints
showHelp ==
  HelpHeader \o [j \in 1..Len(HelpTopics) |-> TopicLine(HelpTopics[j])] \o <<HelpExample>>

(***************************************************************************)
(* main                                                                    *)
(***************************************************************************)
\* a test that also takes an empty first argument for a missing one
NoTopicOrEmpty(a) == IF Len(a) < 2 THEN TRUE ELSE a[2] = ""

\* a test that is off by one: len(os.Args) < 3
NoTopicOffByOne(a) == Len(a) < 3

\* if len(os.Args) < 2
NoTopic(a) == Len(a) < 2

\* a main that takes the last argument for the topic
TopicLast(a) == a[Len(a)]

\* a main that keeps the topic of the process before it, when there was one
TopicSticky(a) == IF Len(prev.args) >= 2 THEN prev.args[2] ELSE a[2]

\* topic := os.Args[1] (os.Args[0] is a[1] here)
Topic(a) == a[2]

\* strings.ToLower(strings.TrimSpace(s)) on the requests of the model
Fold(s) ==
  IF \E m \in NearMisses : m.request = s
  THEN (CHOOSE m \in NearMisses : m.request = s).key
  ELSE s

\* a switch over the folded topic: matching that ignores letter case and
\* surrounding blanks
CaseIndexFolded(topic) ==
  IF \E j \in DOMAIN SwitchCases : SwitchCases[j].key = Fold(topic)
  THEN CHOOSE j \in DOMAIN SwitchCases :
         /\ SwitchCases[j].key = Fold(topic)
         /\ \A k \in 1..(j - 1) : SwitchCases[k].key # Fold(topic)
  ELSE 0

\* the case of the switch that topic selects: the first one whose constant
\* equals topic, 0 for the default clause
CaseIndex(topic) ==
  IF \E j \in DOMAIN SwitchCases : SwitchCases[j].key = topic
  THEN CHOOSE j \in DOMAIN SwitchCases :
         /\ SwitchCases[j].key = topic
         /\ \A k \in 1..(j - 1) : SwitchCases[k].key # topic
  ELSE 0

\* the two prints a case makes before its call
CaseHeader(c) ==
  IF c.title = "" THEN <<>>
  ELSE << Header(<<c.title>>), Cyan(<<"=">> \o repeat("=", 40)) >>

\* a case that lacks its implicit break and runs into the next case's call
CaseCallsFallthrough(j) ==
  IF j < Len(SwitchCases) - 1
  THEN <<SwitchCases[j].fn, SwitchCases[j + 1].fn>>
  ELSE <<SwitchCases[j].fn>>

\* the calls of demonstration routines that case j makes
CaseCalls(j) == <<SwitchCases[j].fn>>

\* a default clause that shows the help before the error line
DefaultOutputHelpFirst(topic) ==
  showHelp \o << ErrorText(<<"Unknown topic: ", topic>>) >>

\* what the default clause prints
DefaultOutput(topic) ==
  << ErrorText(<<"Unknown topic: ", topic>>) >> \o showHelp

Outcome(kind, arg) == [kind |-> kind, arg |-> arg]
NoOutcome == Outcome("none", "")

\* n lines printed by the function f
By(f, n) == [j \in 1..n |-> f]

\* the record of a finished run; NoRun when no process ran before
NoRun == [args |-> <<>>, outcome |-> NoOutcome, calls |-> <<>>, out |-> <<>>,
          exitCode |-> -1, panicAt |-> 0]
ThisRun == [args |-> osArgs, outcome |-> outcome, calls |-> calls, out |-> out,
            exitCode |-> exitCode, panicAt |-> panicAt]

\* the argument vectors a process is started with; os.Args[0] is the program
ExtraSeqs == UNION {[1..n -> ExtraArgs] : n \in 0..MaxExtraArgs}
Requests == {SwitchCases[j].key : j \in DOMAIN SwitchCases} \cup UnknownRequests
ArgVectors ==
  {<<"goedge">>} \cup {<<"goedge", t>> \o e : t \in Requests, e \in ExtraSeqs}
HistoryVectors ==
  {<<"goedge">>} \cup {<<"goedge", t>> \o e : t \in HistoryRequests, e \in ExtraSeqs}

(***************************************************************************)
(* The library types and demonstrations before any of them is used: the    *)
(* structs hold Go's zero values, the demonstrations have not been called. *)
(***************************************************************************)
\* var cb CircularBuffer
ZeroCircularBuffer ==
  [buffer |-> <<>>, head |-> 0, tail |-> 0, size |-> 0, full |-> FALSE]

\* var sw SlidingWindow
ZeroSlidingWindow == [events |-> <<>>, windowSize |-> 0, maxEvents |-> 0]

\* no call made yet on the buffer.  arg is the slice handed to Write, len the
\* length of the slice handed to Read, ret the count returned, data what Read
\* stored; unread lists the bytes written and not yet read, the newest
\* cb.size of them at most, oldest first, and was is unread before the call
NoBufferCall ==
  [op |-> "none", arg |-> <<>>, len |-> 0, ret |-> 0, data |-> <<>>,
   unread |-> <<>>, was |-> <<>>]

\* no call made yet on the window; now is the reading of the clock
NoWindowCall == [op |-> "none", now |-> 0, ret |-> FALSE, before |-> <<>>]

\* a demonstration that has not been called
NotCalled == [pc |-> "idle"]

DemosIdle ==
  /\ cb = ZeroCircularBuffer
  /\ cbObs = NoBufferCall
  /\ sw = ZeroSlidingWindow
  /\ swObs = NoWindowCall
  /\ safe = NotCalled
  /\ race = NotCalled
  /\ pool = NotCalled
  /\ pipe = NotCalled
  /\ prodcons = NotCalled
  /\ owt = NotCalled

\* the dispatcher at rest, while a library type or a demonstration is
\* looked at on its own
DispatcherIdle ==
  /\ osArgs = <<"goedge">>
  /\ pc = "start"
  /\ idx = 0
  /\ topics = <<>>
  /\ calls = <<>>
  /\ out = <<>>
  /\ writer = <<>>
  /\ outcome = NoOutcome
  /\ exitCode = -1
  /\ panicAt = 0
  /\ prev = NoRun

\* a process that has not run yet
Fresh ==
  /\ pc = "start"
  /\ idx = 0
  /\ topics = <<>>
  /\ calls = <<>>
  /\ out = <<>>
  /\ writer = <<>>
  /\ outcome = NoOutcome
  /\ exitCode = -1
  /\ panicAt = 0

Init ==
  /\ osArgs \in ArgVectors
  /\ Fresh
  /\ prev = NoRun
  /\ DemosIdle

InitHistory ==
  /\ osArgs \in HistoryVectors
  /\ Fresh
  /\ prev = NoRun
  /\ DemosIdle

\* len(os.Args) < 2: showHelp(); return
MainShowHelp ==
  /\ pc = "start"
  /\ NoTopic(osArgs)
  /\ out' = out \o showHelp
  /\ writer' = writer \o By("showHelp", Len(showHelp))
  /\ outcome' = Outcome("ShowHelp", "")
  /\ pc' = "exited"
  /\ exitCode' = 0
  /\ UNCHANGED <<osArgs, idx, topics, calls, panicAt, prev, demoVars>>

\* a case naming a demonstration routine: its header, then the call, which
\* returns (main returns, exit status 0) or panics (exit status 2)
MainRunOne ==
  /\ pc = "start"
  /\ ~NoTopic(osArgs)
  /\ LET topic == Topic(osArgs)
         j == CaseIndex(topic)
     IN /\ j # 0
        /\ SwitchCases[j].fn # "runAllExamples"
        /\ out' = out \o CaseHeader(SwitchCases[j])
        /\ writer' = writer \o By("main", Len(CaseHeader(SwitchCases[j])))
        /\ calls' = calls \o CaseCalls(j)
        /\ outcome' = Outcome("RanOne", SwitchCases[j].key)
  /\ \E panics \in BOOLEAN :
       /\ exitCode' = IF panics THEN 2 ELSE 0
       /\ panicAt' = IF panics THEN Len(calls) + 1 ELSE 0
  /\ pc' = "exited"
  /\ UNCHANGED <<osArgs, idx, topics, prev, demoVars>>

\* case "all": runAllExamples() is entered and builds its topics slice
MainRunAll ==
  /\ pc = "start"
  /\ ~NoTopic(osArgs)
  /\ LET j == CaseIndex(Topic(osArgs))
     IN /\ j # 0
        /\ SwitchCases[j].fn = "runAllExamples"
  /\ outcome' = Outcome("RanAll", "")
  /\ topics' = AllTopics
  /\ (IF Len(AllTopics) = 0
      THEN pc' = "exited" /\ exitCode' = 0 /\ idx' = idx
      ELSE pc' = "runAll" /\ exitCode' = exitCode /\ idx' = 1)
  /\ UNCHANGED <<osArgs, calls, out, writer, panicAt, prev, demoVars>>

\* default: the error line, then showHelp(); main returns
MainDefault ==
  /\ pc = "start"
  /\ ~NoTopic(osArgs)
  /\ CaseIndex(Topic(osArgs)) = 0
  /\ out' = out \o DefaultOutput(Topic(osArgs))
  /\ writer' = writer \o <<"main">> \o By("showHelp", Len(showHelp))
  /\ outcome' = Outcome("UnknownTopic", Topic(osArgs))
  /\ pc' = "exited"
  /\ exitCode' = 0
  /\ UNCHANGED <<osArgs, idx, topics, calls, panicAt, prev, demoVars>>

(***************************************************************************)
(* runAllExamples                                                          *)
(***************************************************************************)
\* the two prints before topic.fn()
AllHeader(t) ==
  << <<"\n">> \o Header(<<t.name>>) \o <<" Examples:">>,
     Cyan(<<"=">> \o repeat("=", 50)) >>

\* the print after topic.fn() for every entry but the last
AllSeparator == <<"\n">> \o Dim(repeat("-", 50))

\* a loop body that marks the entry it has run in the slice
RunAllNextMarking ==
  /\ pc = "runAll"
  /\ idx \in 1..Len(topics)
  /\ calls' = Append(calls, topics[idx].fn)
  /\ topics' = [topics EXCEPT ![idx].name = "done"]
  /\ \E panics \in BOOLEAN :
       IF panics
       THEN /\ out' = out \o AllHeader(topics[idx])
            /\ pc' = "exited"
            /\ exitCode' = 2
            /\ idx' = idx
            /\ panicAt' = Len(calls) + 1
       ELSE /\ out' = out \o AllHeader(topics[idx])
                        \o (IF idx < Len(topics) THEN <<AllSeparator>> ELSE <<>>)
            /\ idx' = idx + 1
            /\ pc' = IF idx = Len(topics) THEN "exited" ELSE "runAll"
            /\ exitCode' = IF idx = Len(topics) THEN 0 ELSE exitCode
            /\ panicAt' = panicAt
  /\ writer' = writer \o By("runAllExamples", Len(out') - Len(out))
  /\ UNCHANGED <<osArgs, outcome, prev, demoVars>>

\* a loop body that recovers from the panic of topic.fn() and goes on with
\* the next entry
RunAllNextRecover ==
  /\ pc = "runAll"
  /\ idx \in 1..Len(topics)
  /\ calls' = Append(calls, topics[idx].fn)
  /\ \E panics \in BOOLEAN :
       panicAt' = IF panics /\ panicAt = 0 THEN Len(calls) + 1 ELSE panicAt
  /\ out' = out \o AllHeader(topics[idx])
               \o (IF idx < Len(topics) THEN <<AllSeparator>> ELSE <<>>)
  /\ idx' = idx + 1
  /\ pc' = IF idx = Len(topics) THEN "exited" ELSE "runAll"
  /\ exitCode' = IF idx = Len(topics) THEN 0 ELSE exitCode
  /\ writer' = writer \o By("runAllExamples", Len(out') - Len(out))
  /\ UNCHANGED <<osArgs, outcome, topics, prev, demoVars>>

\* a case "all" that ends in a fallthrough: after the last entry the default
\* clause runs too
RunAllNextFallthrough ==
  /\ pc = "runAll"
  /\ idx \in 1..Len(topics)
  /\ calls' = Append(calls, topics[idx].fn)
  /\ \E panics \in BOOLEAN :
       IF panics
       THEN /\ out' = out \o AllHeader(topics[idx])
            /\ pc' = "exited"
            /\ exitCode' = 2
            /\ idx' = idx
            /\ panicAt' = Len(calls) + 1
       ELSE /\ out' = out \o AllHeader(topics[idx])
                        \o (IF idx < Len(topics) THEN <<AllSeparator>>
                            ELSE DefaultOutput(Topic(osArgs)))
            /\ idx' = idx + 1
            /\ pc' = IF idx = Len(topics) THEN "exited" ELSE "runAll"
            /\ exitCode' = IF idx = Len(topics) THEN 0 ELSE exitCode
            /\ panicAt' = panicAt
  /\ writer' = writer \o By("runAllExamples", Len(out') - Len(out))
  /\ UNCHANGED <<osArgs, outcome, topics, prev, demoVars>>

\* one iteration of the range loop (idx counts from 1): the prints, the call
\* topic.fn(), which returns or panics, and the separator; a panic ends the
\* process (exit status 2), after the last entry runAllExamples and main
\* return
RunAllNext ==
  /\ pc = "runAll"
  /\ idx \in 1..Len(topics)
  /\ calls' = Append(calls, topics[idx].fn)
  /\ \E panics \in BOOLEAN :
       IF panics
       THEN /\ out' = out \o AllHeader(topics[idx])
            /\ pc' = "exited"
            /\ exitCode' = 2
            /\ idx' = idx
            /\ panicAt' = Len(calls) + 1
       ELSE /\ out' = out \o AllHeader(topics[idx])
                        \o (IF idx < Len(topics) THEN <<AllSeparator>> ELSE <<>>)
            /\ idx' = idx + 1
            /\ pc' = IF idx = Len(topics) THEN "exited" ELSE "runAll"
            /\ exitCode' = IF idx = Len(topics) THEN 0 ELSE exitCode
            /\ panicAt' = panicAt
  /\ writer' = writer \o By("runAllExamples", Len(out') - Len(out))
  /\ UNCHANGED <<osArgs, outcome, topics, prev, demoVars>>

(***************************************************************************)
(* README, Usage: the program is started again, go run ./cmd/goedge <topic> *)
(***************************************************************************)
Invoke ==
  /\ pc = "exited"
  /\ osArgs' \in ArgVectors
  /\ pc' = "start"
  /\ idx' = 0
  /\ topics' = <<>>
  /\ calls' = <<>>
  /\ out' = <<>>
  /\ writer' = <<>>
  /\ outcome' = NoOutcome
  /\ exitCode' = -1
  /\ panicAt' = 0
  /\ UNCHANGED <<prev, demoVars>>

\* the same step, with the finished run recorded in the history variable
InvokeRecorded ==
  /\ pc = "exited"
  /\ osArgs' \in HistoryVectors
  /\ pc' = "start"
  /\ idx' = 0
  /\ topics' = <<>>
  /\ calls' = <<>>
  /\ out' = <<>>
  /\ writer' = <<>>
  /\ outcome' = NoOutcome
  /\ exitCode' = -1
  /\ panicAt' = 0
  /\ prev' = ThisRun
  /\ UNCHANGED demoVars

Next ==
  \/ MainShowHelp
  \/ MainRunOne
  \/ MainRunAll
  \/ MainDefault
  \/ RunAllNext
  \/ Invoke

NextHistory ==
  \/ MainShowHelp
  \/ MainRunOne
  \/ MainRunAll
  \/ MainDefault
  \/ RunAllNext
  \/ InvokeRecorded

Spec == Init /\ [][Next]_vars

\* the same program, observed over two successive runs
SpecHistory == InitHistory /\ [][NextHistory]_vars

(***************************************************************************)
(* The registry as the code has it: a registered topic is a case of the    *)
(* switch bound to a demonstration routine, registration order is the      *)
(* order of the cases; "all" is the meta-topic.                            *)
(***************************************************************************)
IsRegistered(c) == c.fn # "runAllExamples"
RegisteredCases == SelectSeq(SwitchCases, IsRegistered)
RegisteredKeys == {RegisteredCases[j].key : j \in DOMAIN RegisteredCases}

\* the routine bound to key k
ActionOf(k) == (CHOOSE c \in {RegisteredCases[j] : j \in DOMAIN RegisteredCases} : c.key = k).fn

(***************************************************************************)
(* Reading a run.                                                          *)
(***************************************************************************)
Exited == pc = "exited"
HasTopic == Len(osArgs) >= 2

\* a line of the form "  <yellow>key<reset> - description"
IsTopicLine(l) ==
  /\ Len(l) = 6
  /\ l[1] = "  " /\ l[2] = ColorYellow /\ l[4] = ColorReset /\ l[5] = " - "
\* a line of the form "<red>X Unknown topic: x<reset>"
IsErrorLine(l) ==
  /\ Len(l) = 5
  /\ l[1] = ColorRed /\ l[3] = "Unknown topic: " /\ l[5] = ColorReset
IsUsageLine(l) == \E j \in DOMAIN l : l[j] = "Usage:"
IsExampleLine(l) == \E j \in DOMAIN l : l[j] = "Example: go run ./cmd/goedge json"

\* the positions of out that hold topic lines, and the keys listed, in order
TopicLines(o) == SelectSeq(o, IsTopicLine)
ListedKeys(o) == [j \in 1..Len(TopicLines(o)) |-> TopicLines(o)[j][3]]

\* position of x in the sequence s (0 when absent)
PosIn(s, x) == IF \E j \in DOMAIN s : s[j] = x
               THEN CHOOSE j \in DOMAIN s : s[j] = x /\ \A k \in 1..(j - 1) : s[k] # x
               ELSE 0
Count(s, x) == Cardinality({j \in DOMAIN s : s[j] = x})

\* o carries a complete help listing from position first on: the usage line,
\* then one line per entry of the topics table, then the example line last
HelpShownFrom(o, first) ==
  /\ first <= Len(o)
  /\ \E u \in first..Len(o) :
       /\ IsUsageLine(o[u])
       /\ \A j \in first..Len(o) : IsTopicLine(o[j]) => u < j
  /\ IsExampleLine(o[Len(o)])
  /\ \A j \in 1..(first - 1) : ~IsTopicLine(o[j])
  /\ Len(TopicLines(o)) = Len(HelpTopics)
  /\ \A j \in DOMAIN HelpTopics :
       /\ TopicLines(o)[j][3] = HelpTopics[j].name
       /\ TopicLines(o)[j][6] = HelpTopics[j].desc

(***************************************************************************)
(* C1: dispatching "all" invokes the action of every registered topic      *)
(* exactly once each, in registration order, and nothing else: the actions *)
(* run by "all" are exactly those reachable through single-topic dispatch. *)
(* Stated for a run in which every action returns.                         *)
(***************************************************************************)
C1_AllRunsEveryRegisteredAction ==
  (Exited /\ outcome.kind = "RanAll" /\ exitCode = 0)
    => calls = [j \in 1..Len(RegisteredCases) |-> RegisteredCases[j].fn]

(***************************************************************************)
(* C2: for every registered key k, dispatching k invokes exactly the       *)
(* action bound to k, exactly once, and no other registered action; the    *)
(* outcome is RanOne(k).                                                   *)
(***************************************************************************)
\* outcome records the branch main took; it is set also when the action panics
C2_RegisteredKeyRunsItsActionOnce ==
  (Exited /\ HasTopic /\ osArgs[2] \in RegisteredKeys)
    => /\ calls = <<ActionOf(osArgs[2])>>
       /\ outcome = Outcome("RanOne", osArgs[2])

C2_Witness ==
  /\ Exited
  /\ HasTopic
  /\ osArgs[2] = "json"
  /\ calls = <<"RunJSONSerializationExamples">>
  /\ exitCode = 0

(***************************************************************************)
(* C3: for every supplied request x that is not "all" and not a registered *)
(* key, the outcome is UnknownTopic(x), no action is invoked, an error     *)
(* line naming x is printed and only after it the full help listing.       *)
(***************************************************************************)
C3_UnknownTopicErrorThenHelp ==
  (Exited /\ HasTopic /\ osArgs[2] \notin RegisteredKeys \cup {"all"})
    => /\ outcome = Outcome("UnknownTopic", osArgs[2])
       /\ calls = <<>>
       /\ Len(out) >= 1
       /\ IsErrorLine(out[1])
       /\ out[1][4] = osArgs[2]
       /\ \A j \in 2..Len(out) : ~IsErrorLine(out[j])
       /\ HelpShownFrom(out, 2)

C3_Witness ==
  /\ Exited
  /\ HasTopic
  /\ osArgs[2] = "bogus"
  /\ out[1] = ErrorText(<<"Unknown topic: ", "bogus">>)
  /\ Len(out) = 1 + Len(HelpHeader) + Len(HelpTopics) + 1

(***************************************************************************)
(* C4: with no topic argument the outcome is ShowHelp: the help text is    *)
(* printed, no action is invoked and the exit code is 0.                   *)
(***************************************************************************)
C4_NoArgumentShowsHelp ==
  (Exited /\ ~HasTopic)
    => /\ outcome = Outcome("ShowHelp", "")
       /\ calls = <<>>
       /\ exitCode = 0
       /\ HelpShownFrom(out, 1)
       /\ \A j \in DOMAIN out : ~IsErrorLine(out[j])

C4_Witness ==
  /\ Exited
  /\ osArgs = <<"goedge">>
  /\ Len(out) = Len(HelpHeader) + Len(HelpTopics) + 1
  /\ exitCode = 0

(***************************************************************************)
(* C5: an unknown topic ends the process with a non-zero exit code.        *)
(***************************************************************************)
C5_UnknownTopicExitsNonZero ==
  (Exited /\ outcome.kind = "UnknownTopic") => exitCode # 0

(***************************************************************************)
(* C6: one registration order governs both listings: for any two           *)
(* registered topics a and b whose actions all-mode runs, a is listed      *)
(* before b in the help if and only if a's action runs before b's.         *)
(***************************************************************************)
C6_HelpOrderIsAllOrder ==
  (Exited /\ outcome.kind = "RanAll" /\ exitCode = 0)
    => \A a, b \in RegisteredKeys :
         (Count(calls, ActionOf(a)) = 1 /\ Count(calls, ActionOf(b)) = 1)
           => ((PosIn(ListedKeys(showHelp), a) < PosIn(ListedKeys(showHelp), b))
                 <=> (PosIn(calls, ActionOf(a)) < PosIn(calls, ActionOf(b))))

(***************************************************************************)
(* C7: the help listing has exactly one line per topic, carrying its key   *)
(* and description, in registration order, between the usage header and    *)
(* the trailing example line; the keys listed are the keys the dispatcher  *)
(* accepts.                                                                *)
(***************************************************************************)
C7_HelpListsRegistryInOrder ==
  (Exited /\ outcome.kind \in {"ShowHelp", "UnknownTopic"})
    => /\ HelpShownFrom(out, IF outcome.kind = "ShowHelp" THEN 1 ELSE 2)
       /\ ListedKeys(out) = [j \in 1..Len(SwitchCases) |-> SwitchCases[j].key]

(***************************************************************************)
(* C8: key values are unique: no two cases of the switch carry the same    *)
(* key, and no help listing printed carries a key on two lines.            *)
(***************************************************************************)
C8_KeysUnique ==
  /\ \A j, k \in DOMAIN SwitchCases :
       SwitchCases[j].key = SwitchCases[k].key => j = k
  /\ \A j, k \in DOMAIN ListedKeys(out) :
       ListedKeys(out)[j] = ListedKeys(out)[k] => j = k

C8_Witness ==
  /\ Exited
  /\ outcome.kind = "ShowHelp"
  /\ Len(ListedKeys(out)) = Len(HelpTopics)
  /\ Len(ListedKeys(out)) > 1

(***************************************************************************)
(* C12: topic matching is exact and case-sensitive: a request that differs *)
(* from a key only in letter case or by a surrounding character is handled *)
(* as an unknown topic; the miss is no failure (main returns normally) and *)
(* has no effect beyond the error line and the help.                       *)
(***************************************************************************)
C12_NearMissIsUnknownTopic ==
  (Exited /\ HasTopic /\ \E m \in NearMisses : m.request = osArgs[2])
    => /\ outcome = Outcome("UnknownTopic", osArgs[2])
       /\ calls = <<>>
       /\ exitCode = 0
       /\ IsErrorLine(out[1])
       /\ out[1][4] = osArgs[2]
       /\ HelpShownFrom(out, 2)
       /\ Len(out) = 1 + Len(HelpHeader) + Len(HelpTopics) + 1

C12_Witness ==
  /\ Exited
  /\ HasTopic
  /\ osArgs[2] = "Pointers"
  /\ [request |-> "Pointers", key |-> "pointers"] \in NearMisses
  /\ "pointers" \in RegisteredKeys
  /\ outcome = Outcome("UnknownTopic", "Pointers")

(***************************************************************************)
(* C16: every run of main that returns ends in exactly one of ShowHelp,    *)
(* RanAll, RanOne(key), UnknownTopic(request); which one is decided by the *)
(* request alone, the four cases exclude each other and cover every        *)
(* request, the decision is taken in one step from the start, and "all"    *)
(* resolves to RanAll, never to a registered entry.                        *)
(***************************************************************************)
C16_ExactlyOneOutcome ==
  /\ pc = "start" <=> outcome = NoOutcome
  /\ pc = "start" =>
       Cardinality({b \in {"help", "one", "all", "default"} :
                      \/ b = "help" /\ ENABLED MainShowHelp
                      \/ b = "one" /\ ENABLED MainRunOne
                      \/ b = "all" /\ ENABLED MainRunAll
                      \/ b = "default" /\ ENABLED MainDefault}) = 1
  /\ pc # "start" =>
       /\ outcome.kind \in {"ShowHelp", "RanAll", "RanOne", "UnknownTopic"}
       /\ outcome.kind = "ShowHelp" <=> ~HasTopic
       /\ outcome.kind = "RanAll" <=> (HasTopic /\ osArgs[2] = "all")
       /\ outcome.kind = "RanOne" <=> (HasTopic /\ osArgs[2] \in RegisteredKeys)
       /\ outcome.kind = "UnknownTopic"
            <=> (HasTopic /\ osArgs[2] \notin RegisteredKeys \cup {"all"})
       /\ outcome.kind \in {"RanOne", "UnknownTopic"} => outcome.arg = osArgs[2]
       /\ pc = "runAll" => outcome.kind = "RanAll"

C16_Witness ==
  /\ Exited
  /\ HasTopic
  /\ osArgs[2] = "all"
  /\ outcome = Outcome("RanAll", "")
  /\ exitCode = 0
  /\ "RunPointerExamples" \in {calls[j] : j \in DOMAIN calls}

(***************************************************************************)
(* C20: a topic argument that is supplied but empty is not treated as      *)
(* absent: the outcome is UnknownTopic(""), with the error line followed   *)
(* by the help and no action invoked, never the plain ShowHelp outcome.    *)
(***************************************************************************)
C20_EmptyTopicIsUnknown ==
  (Exited /\ HasTopic /\ osArgs[2] = "")
    => /\ outcome = Outcome("UnknownTopic", "")
       /\ calls = <<>>
       /\ IsErrorLine(out[1])
       /\ out[1][4] = ""
       /\ HelpShownFrom(out, 2)

C20_Witness ==
  /\ Exited
  /\ HasTopic
  /\ osArgs[2] = ""
  /\ out[1] = ErrorText(<<"Unknown topic: ", "">>)
  /\ outcome.kind = "UnknownTopic"

(***************************************************************************)
(* C14: a panic raised inside an action is never caught, wrapped or        *)
(* suppressed: the run ends with it at once.  In single-topic mode the one *)
(* call made is the one that panicked; in all-mode a panic in entry N      *)
(* comes after entries 1..N-1 have each run exactly once, and entries      *)
(* N+1..end never run.                                                     *)
(***************************************************************************)
C14_PanicPropagates ==
  panicAt # 0
    => /\ Exited
       /\ exitCode # 0
       /\ panicAt = Len(calls)
       /\ \A j \in DOMAIN out : ~IsErrorLine(out[j]) /\ ~IsTopicLine(out[j])
       /\ outcome.kind \in {"RanOne", "RanAll"}
       /\ outcome.kind = "RanOne" => calls = <<ActionOf(osArgs[2])>>
       /\ outcome.kind = "RanAll" =>
            /\ panicAt <= Len(AllTopics)
            /\ calls = [j \in 1..panicAt |-> AllTopics[j].fn]

C14_Witness ==
  /\ Exited
  /\ outcome.kind = "RanAll"
  /\ panicAt = 3
  /\ calls = <<"RunPointerExamples", "RunFunctionExamples", "RunArraySliceExamples">>
  /\ exitCode = 2

(***************************************************************************)
(* C18: when the dispatched action (single topic) or all actions           *)
(* (all-mode) return normally, the process ends with exit code 0 and       *)
(* neither the error line nor the help listing is shown.                   *)
(***************************************************************************)
C18_NormalReturnExitsZero ==
  (Exited /\ outcome.kind \in {"RanOne", "RanAll"} /\ panicAt = 0)
    => /\ exitCode = 0
       /\ \A j \in DOMAIN out :
            /\ ~IsErrorLine(out[j])
            /\ ~IsTopicLine(out[j])
            /\ ~IsUsageLine(out[j])
            /\ ~IsExampleLine(out[j])

C18_Witness ==
  /\ Exited
  /\ outcome.kind = "RanAll"
  /\ panicAt = 0
  /\ Len(calls) = Len(AllTopics)
  /\ Len(out) > 0
  /\ exitCode = 0

(***************************************************************************)
(* C13: once constructed, the registry is never changed.  The only table   *)
(* the code keeps across steps is the topics slice of runAllExamples: from *)
(* its construction to the end of the process it holds the same entries,   *)
(* in the same order, with the same names and actions, whatever the calls  *)
(* do; the branches that do not enter runAllExamples construct nothing.    *)
(***************************************************************************)
C13_RegistryNeverChanged ==
  /\ (pc = "runAll" \/ (Exited /\ outcome.kind = "RanAll")) => topics = AllTopics
  /\ outcome.kind # "RanAll" => topics = <<>>

C13_Witness ==
  /\ Exited
  /\ outcome.kind = "RanAll"
  /\ Len(calls) = Len(AllTopics)
  /\ Len(topics) = Len(calls)
  /\ \A j \in DOMAIN calls : topics[j].fn = calls[j]

(***************************************************************************)
(* Reading two successive runs.                                            *)
(***************************************************************************)
HasPrev == Len(prev.args) > 0
ShowsHelp(kind) == kind \in {"ShowHelp", "UnknownTopic"}

\* the lines of a run's output that come from showHelp
HelpPart(o, kind) == IF kind = "UnknownTopic" THEN Tail(o) ELSE o

C19_FurtherArgumentsIgnored ==
  (/\ Exited
   /\ HasPrev
   /\ Len(osArgs) >= 2
   /\ Len(prev.args) >= 2
   /\ prev.args[2] = osArgs[2]
   /\ prev.args # osArgs
   /\ prev.panicAt = panicAt)
    => /\ outcome = prev.outcome
       /\ calls = prev.calls
       /\ out = prev.out
       /\ exitCode = prev.exitCode

C19_Witness ==
  /\ Exited
  /\ HasPrev
  /\ prev.args = <<"goedge", "json">>
  /\ osArgs = <<"goedge", "json", "all">>
  /\ calls = <<"RunJSONSerializationExamples">>
  /\ prev.calls = calls
  /\ panicAt = 0

(***************************************************************************)
(* internal/reflection.go: CircularBuffer.  Index i of a Go slice is index *)
(* i + 1 of the sequence.  A call of Write or Read is one step: the type   *)
(* has no lock and is used from one goroutine.                             *)
(***************************************************************************)
\* the largest buffer size looked at
MaxBufferSize == 3

\* the longest slice handed to Write, and the longest handed to Read
MaxData == 4

\* the byte values written; make([]byte, size) fills the buffer with 0
Bytes == {1, 2}

DataSeqs == UNION {[1..n -> Bytes] : n \in 0..MaxData}

\* the last n elements of s, all of s when it has fewer
LastN(s, n) == IF Len(s) <= n THEN s ELSE SubSeq(s, Len(s) - n + 1, Len(s))

\* a Write that stores the byte without moving tail off the overwritten one
WriteByteKeepTail(c, b) ==
  LET h == (c.head + 1) % c.size
  IN [c EXCEPT !.buffer[c.head + 1] = b,
               !.head = h,
               !.full = IF h = c.tail THEN TRUE ELSE c.full]

\* the body of Write's range loop for one byte b
WriteByte(c, b) ==
  LET t == IF c.full /\ c.head = c.tail THEN (c.tail + 1) % c.size ELSE c.tail
      h == (c.head + 1) % c.size
  IN [c EXCEPT !.buffer[c.head + 1] = b,
               !.tail = t,
               !.head = h,
               !.full = IF h = t THEN TRUE ELSE c.full]

\* Write's range loop over data, written counting the iterations
RECURSIVE WriteLoop(_, _, _)
WriteLoop(c, data, written) ==
  IF data = <<>> THEN [cb |-> c, written |-> written]
  ELSE WriteLoop(WriteByte(c, Head(data)), Tail(data), written + 1)

\* func (cb *CircularBuffer) Write(data []byte) int
Write(c, data) ==
  IF Len(data) = 0 THEN [cb |-> c, written |-> 0]
  ELSE WriteLoop(c, data, 0)

\* Read's for loop from index i on; data is the caller's slice of length n
RECURSIVE ReadLoop(_, _, _, _, _)
ReadLoop(c, i, n, data, read) ==
  IF i < n /\ (c.full \/ c.head # c.tail)
  THEN ReadLoop([c EXCEPT !.tail = (c.tail + 1) % c.size, !.full = FALSE],
                i + 1, n, Append(data, c.buffer[c.tail + 1]), read + 1)
  ELSE [cb |-> c, data |-> data, read |-> read]

\* func (cb *CircularBuffer) Read(data []byte) int, for a slice of length n;
\* data is the part of the slice that Read stored into
Read(c, n) ==
  IF n = 0 \/ (~c.full /\ c.head = c.tail)
  THEN [cb |-> c, data |-> <<>>, read |-> 0]
  ELSE ReadLoop(c, 0, n, <<>>, 0)

\* func NewCircularBuffer(size int) *CircularBuffer
NewCircularBuffer(size) ==
  [buffer |-> [i \in 1..size |-> 0], head |-> 0, tail |-> 0, size |-> size,
   full |-> FALSE]

otherThanBuffer ==
  <<vars, sw, swObs, safe, race, pool, pipe, prodcons, owt>>

BufferNew ==
  /\ cbObs.op = "none"
  /\ \E size \in 1..MaxBufferSize :
       /\ cb' = NewCircularBuffer(size)
       /\ cbObs' = [NoBufferCall EXCEPT !.op = "New"]
  /\ UNCHANGED otherThanBuffer

BufferWrite ==
  /\ cbObs.op # "none"
  /\ \E data \in DataSeqs :
       LET r == Write(cb, data)
       IN /\ cb' = r.cb
          /\ cbObs' = [op |-> "Write", arg |-> data, len |-> 0,
                       ret |-> r.written, data |-> <<>>,
                       unread |-> LastN(cbObs.unread \o data, cb.size),
                       was |-> cbObs.unread]
  /\ UNCHANGED otherThanBuffer

BufferRead ==
  /\ cbObs.op # "none"
  /\ \E n \in 0..MaxData :
       LET r == Read(cb, n)
           k == IF n < Len(cbObs.unread) THEN n ELSE Len(cbObs.unread)
       IN /\ cb' = r.cb
          /\ cbObs' = [op |-> "Read", arg |-> <<>>, len |-> n,
                       ret |-> r.read, data |-> r.data,
                       unread |-> SubSeq(cbObs.unread, k + 1, Len(cbObs.unread)),
                       was |-> cbObs.unread]
  /\ UNCHANGED otherThanBuffer

InitLibrary == DispatcherIdle /\ DemosIdle

NextBuffer ==
  \/ BufferNew
  \/ BufferWrite
  \/ BufferRead

SpecBuffer == InitLibrary /\ [][NextBuffer]_<<vars, demoVars>>

\* how many bytes the buffer holds, and which, oldest first
Held(c) == IF c.full THEN c.size ELSE (c.head - c.tail + c.size) % c.size
Content(c) == [i \in 1..Held(c) |-> c.buffer[((c.tail + i - 1) % c.size) + 1]]

(***************************************************************************)
(* C25: CircularBuffer is FIFO with overwrite-oldest.  After any sequence  *)
(* of Write and Read calls on a buffer of size n >= 1 it holds the most    *)
(* recent min(n, unread) written bytes, Read returns them in the order     *)
(* they were written, Write reports len(data) bytes written, and           *)
(* 0 <= head, tail < n and (full implies head = tail) hold between calls.  *)
(***************************************************************************)
C25_BufferFifoOverwriteOldest ==
  cbObs.op # "none"
    => /\ cb.head \in 0..(cb.size - 1)
       /\ cb.tail \in 0..(cb.size - 1)
       /\ cb.full => cb.head = cb.tail
       /\ Content(cb) = cbObs.unread
       /\ cbObs.op = "Write" => cbObs.ret = Len(cbObs.arg)
       /\ cbObs.op = "Read"
            => /\ cbObs.ret = (IF cbObs.len < Len(cbObs.was)
                               THEN cbObs.len ELSE Len(cbObs.was))
               /\ cbObs.data = SubSeq(cbObs.was, 1, cbObs.ret)

\* a Read that returns the bytes left by a Write that overwrote older ones
C25_Witness ==
  /\ cbObs.op = "Read"
  /\ cb.size = 2
  /\ cbObs.was = <<2, 1>>
  /\ cbObs.data = <<2, 1>>
  /\ cbObs.ret = 2
  /\ cb.buffer = <<1, 2>>

(***************************************************************************)
(* internal/reflection.go: SlidingWindow.  Times are readings of a clock   *)
(* that counts in whole units and never runs backwards; two calls may read *)
(* the same time.                                                          *)
(***************************************************************************)
\* the last reading of the clock
MaxTime == 4

\* the longest window, in units of the clock
MaxWindowSize == 2

\* the largest maxEvents
MaxWindowEvents == 2

\* func NewSlidingWindow(windowSize time.Duration, maxEvents int)
NewSlidingWindow(windowSize, maxEvents) ==
  [events |-> <<>>, windowSize |-> windowSize, maxEvents |-> maxEvents]

\* event.After(cutoff)
After(event, cutoff) == event > cutoff

\* the first loop of AddEvent: the index (from 0) of the first event after
\* cutoff, 0 when the loop ends without finding one
ValidStart(events, cutoff) ==
  IF \E i \in DOMAIN events : After(events[i], cutoff)
  THEN (CHOOSE i \in DOMAIN events :
          /\ After(events[i], cutoff)
          /\ \A j \in 1..(i - 1) : ~After(events[j], cutoff)) - 1
  ELSE 0

\* copy(sw.events, sw.events[validStart:]) and the reslice that follows
RemoveOld(events, validStart) ==
  IF validStart > 0 THEN SubSeq(events, validStart + 1, Len(events))
  ELSE events

\* an AddEvent whose capacity test is len(sw.events) > sw.maxEvents
AddEventOffByOne(w, now) ==
  LET kept == RemoveOld(w.events, ValidStart(w.events, now - w.windowSize))
  IN IF Len(kept) > w.maxEvents
     THEN [sw |-> [w EXCEPT !.events = kept], ret |-> FALSE]
     ELSE [sw |-> [w EXCEPT !.events = Append(kept, now)], ret |-> TRUE]

\* func (sw *SlidingWindow) AddEvent() bool, with now := time.Now()
AddEvent(w, now) ==
  LET cutoff == now - w.windowSize
      validStart == ValidStart(w.events, cutoff)
      kept == RemoveOld(w.events, validStart)
  IN IF Len(kept) >= w.maxEvents
     THEN [sw |-> [w EXCEPT !.events = kept], ret |-> FALSE]
     ELSE [sw |-> [w EXCEPT !.events = Append(kept, now)], ret |-> TRUE]

\* func (sw *SlidingWindow) CurrentCount() int
CurrentCount(w) == Len(w.events)

otherThanWindow ==
  <<vars, cb, cbObs, safe, race, pool, pipe, prodcons, owt>>

WindowNew ==
  /\ swObs.op = "none"
  /\ \E windowSize \in 1..MaxWindowSize, maxEvents \in 0..MaxWindowEvents :
       sw' = NewSlidingWindow(windowSize, maxEvents)
  /\ swObs' = [swObs EXCEPT !.op = "New"]
  /\ UNCHANGED otherThanWindow

\* time passes between two calls
WindowTick ==
  /\ swObs.op # "none"
  /\ swObs.now < MaxTime
  /\ swObs' = [swObs EXCEPT !.op = "Tick", !.now = swObs.now + 1]
  /\ UNCHANGED <<sw, otherThanWindow>>

WindowAddEvent ==
  /\ swObs.op # "none"
  /\ LET r == AddEvent(sw, swObs.now)
     IN /\ sw' = r.sw
        /\ swObs' = [op |-> "AddEvent", now |-> swObs.now, ret |-> r.ret,
                     before |-> sw.events]
  /\ UNCHANGED otherThanWindow

NextWindow ==
  \/ WindowNew
  \/ WindowTick
  \/ WindowAddEvent

SpecWindow == InitLibrary /\ [][NextWindow]_<<vars, demoVars>>

\* the events of a list that lie inside the window ending at now
InsideWindow(events, now, windowSize) ==
  SelectSeq(events, LAMBDA e : After(e, now - windowSize))

(***************************************************************************)
(* C21: AddEvent removes every event older than the window before it       *)
(* checks capacity: whenever fewer than maxEvents stored events lie inside *)
(* the window ending now (including when all stored events have expired),  *)
(* AddEvent stores the new event and returns true.                         *)
(***************************************************************************)
C21_AddEventDropsExpiredFirst ==
  (/\ swObs.op = "AddEvent"
   /\ Len(InsideWindow(swObs.before, swObs.now, sw.windowSize)) < sw.maxEvents)
    => /\ swObs.ret = TRUE
       /\ sw.events
            = Append(InsideWindow(swObs.before, swObs.now, sw.windowSize),
                     swObs.now)

(***************************************************************************)
(* C26: after any sequence of AddEvent calls CurrentCount never exceeds    *)
(* maxEvents; AddEvent returns false only when the window already holds    *)
(* maxEvents events (CurrentCount before the call), and a call that        *)
(* returns false adds no event.                                            *)
(***************************************************************************)
C26_CountBoundedFalseOnlyWhenFull ==
  /\ CurrentCount(sw) <= sw.maxEvents
  /\ (swObs.op = "AddEvent" /\ swObs.ret = FALSE)
       => /\ Len(swObs.before) = sw.maxEvents
          /\ sw.events = swObs.before

\* a refused call on a window of two events that are both inside it
C26_Witness ==
  /\ swObs.op = "AddEvent"
  /\ swObs.ret = FALSE
  /\ sw.maxEvents = 2
  /\ sw.windowSize = 2
  /\ sw.events = <<2, 3>>
  /\ swObs.now = 3

(***************************************************************************)
(* internal/reflection.go: SafeSlice.  A slice is a header (arr, len, cap) *)
(* over a backing array kept in heap; arr = 0 is the header of a slice     *)
(* without cells.  Arrays that nothing refers to any more are given back.  *)
(* Each goroutine makes one call after another; a call gets past the lock  *)
(* in one step and runs its body, with the deferred unlock, in a later     *)
(* one, and Append's statement s.items = append(s.items, item) reads       *)
(* s.items in one step and stores the result in the next.  The k-th Append *)
(* that gets the lock appends the item k.  A caller may write into the     *)
(* slice ToSlice gave it.                                                  *)
(***************************************************************************)
\* the goroutines that call the SafeSlice
NumGoroutines == 2

\* how many Append calls are started in all
MaxAppends == 2

Goroutines == 1..NumGoroutines

\* backing arrays that can exist at one time
MaxArrays == 2 * NumGoroutines + 2

\* what a caller writes into the slice it got from ToSlice
Marker == -1

NilSlice == [arr |-> 0, len |-> 0, cap |-> 0]

NoRet == [n |-> 0, ok |-> FALSE, slice |-> NilSlice, modified |-> FALSE]

IdleGoroutine ==
  [pc |-> "idle", op |-> "none", arg |-> 0, local |-> NilSlice, ret |-> NoRet,
   seen |-> 0]

\* the cells of the slice hd, in order
Cells(heap, hd) == IF hd.arr = 0 THEN <<>> ELSE SubSeq(heap[hd.arr], 1, hd.len)

SeqRange(q) == {q[i] : i \in DOMAIN q}
NoDup(q) == \A i, j \in DOMAIN q : i # j => q[i] # q[j]

\* the lowest array not in use
FreeArray(heap) ==
  CHOOSE a \in DOMAIN heap :
    heap[a] = <<>> /\ \A b \in 1..(a - 1) : heap[b] # <<>>

\* append(hd, item): in place when the capacity allows, else into a new
\* array of doubled capacity
GoAppend(heap, hd, item) ==
  IF hd.len < hd.cap
  THEN [heap |-> [heap EXCEPT ![hd.arr][hd.len + 1] = item],
        slice |-> [hd EXCEPT !.len = hd.len + 1]]
  ELSE LET newcap == IF hd.cap = 0 THEN 1 ELSE 2 * hd.cap
           a == FreeArray(heap)
           cells == [i \in 1..newcap |->
                       IF i <= hd.len THEN heap[hd.arr][i]
                       ELSE IF i = hd.len + 1 THEN item ELSE 0]
       IN [heap |-> [heap EXCEPT ![a] = cells],
           slice |-> [arr |-> a, len |-> hd.len + 1, cap |-> newcap]]

\* a ToSlice that returns s.items itself
CopySliceAlias(heap, hd) == [heap |-> heap, slice |-> hd]

\* result := make([]T, len(s.items)); copy(result, s.items)
CopySlice(heap, hd) ==
  IF hd.len = 0 THEN [heap |-> heap, slice |-> NilSlice]
  ELSE LET a == FreeArray(heap)
       IN [heap |-> [heap EXCEPT ![a] = Cells(heap, hd)],
           slice |-> [arr |-> a, len |-> hd.len, cap |-> hd.len]]

\* a Lock that never waits
CanLockAlways(mu) == TRUE

\* s.mu.Lock() goes through when no goroutine holds the mutex
CanLock(mu) == mu.writer = 0 /\ mu.readers = {}

\* s.mu.RLock() goes through when no goroutine holds the write lock
CanRLock(mu) == mu.writer = 0

\* the arrays still referred to: by s.items, by a header a goroutine has
\* read, by a slice a caller holds
Referenced(s) ==
  {s.items.arr}
    \cup {s.gor[g].local.arr : g \in Goroutines}
    \cup {s.gor[g].ret.slice.arr : g \in Goroutines}

Collect(s) ==
  [s EXCEPT !.heap = [a \in DOMAIN s.heap |->
                        IF a \in Referenced(s) THEN s.heap[a] ELSE <<>>]]

otherThanSafe ==
  <<vars, cb, cbObs, sw, swObs, race, pool, pipe, prodcons, owt>>

\* func NewSafeSlice[T any]() *SafeSlice[T]
SafeNew ==
  /\ safe.pc = "idle"
  /\ safe' = [pc |-> "running",
              mu |-> [writer |-> 0, readers |-> {}],
              items |-> NilSlice,
              heap |-> [a \in 1..MaxArrays |-> <<>>],
              gor |-> [g \in Goroutines |-> IdleGoroutine],
              started |-> 0,
              completed |-> {}]
  /\ UNCHANGED otherThanSafe

\* goroutine g calls Append(item) and gets past s.mu.Lock(); seen counts the
\* Appends that had returned by then
SafeCallAppend(g) ==
  /\ safe.pc = "running"
  /\ safe.gor[g].pc = "idle"
  /\ safe.started < MaxAppends
  /\ CanLock(safe.mu)
  /\ safe' = Collect([safe EXCEPT
       !.started = safe.started + 1,
       !.mu.writer = g,
       !.gor[g] = [IdleGoroutine EXCEPT !.pc = "body", !.op = "Append",
                     !.arg = safe.started + 1,
                     !.seen = Cardinality(safe.completed)]])
  /\ UNCHANGED otherThanSafe

\* goroutine g calls Get(index), Len() or ToSlice() and gets past
\* s.mu.RLock()
SafeCallRead(g) ==
  /\ safe.pc = "running"
  /\ safe.gor[g].pc = "idle"
  /\ CanRLock(safe.mu)
  /\ \E call \in {[op |-> "Get", arg |-> 0], [op |-> "Get", arg |-> 1],
                   [op |-> "Get", arg |-> -1], [op |-> "Len", arg |-> 0],
                   [op |-> "ToSlice", arg |-> 0]} :
       safe' = Collect([safe EXCEPT
         !.mu.readers = safe.mu.readers \cup {g},
         !.gor[g] = [IdleGoroutine EXCEPT !.pc = "body", !.op = call.op,
                       !.arg = call.arg,
                       !.seen = Cardinality(safe.completed)]])
  /\ UNCHANGED otherThanSafe

\* Append: the operand s.items of append is read
SafeAppendRead(g) ==
  /\ safe.pc = "running"
  /\ safe.gor[g].pc = "body"
  /\ safe.gor[g].op = "Append"
  /\ safe' = [safe EXCEPT !.gor[g].local = safe.items, !.gor[g].pc = "store"]
  /\ UNCHANGED otherThanSafe

\* Append: the item is appended, the result stored in s.items, the deferred
\* Unlock runs and the call returns
SafeAppendStore(g) ==
  /\ safe.pc = "running"
  /\ safe.gor[g].pc = "store"
  /\ LET r == GoAppend(safe.heap, safe.gor[g].local, safe.gor[g].arg)
     IN safe' = Collect([safe EXCEPT
          !.heap = r.heap,
          !.items = r.slice,
          !.mu.writer = IF safe.mu.writer = g THEN 0 ELSE safe.mu.writer,
          !.completed = safe.completed \cup {safe.gor[g].arg},
          !.gor[g].local = NilSlice,
          !.gor[g].pc = "idle"])
  /\ UNCHANGED otherThanSafe

\* the body of Get, the deferred RUnlock and the return
SafeGet(g) ==
  /\ safe.pc = "running"
  /\ safe.gor[g].pc = "body"
  /\ safe.gor[g].op = "Get"
  /\ LET index == safe.gor[g].arg
     IN safe' = [safe EXCEPT
          !.gor[g].ret =
             IF index < 0 \/ index >= safe.items.len
             THEN NoRet
             ELSE [NoRet EXCEPT !.n = safe.heap[safe.items.arr][index + 1],
                                !.ok = TRUE],
          !.mu.readers = safe.mu.readers \ {g},
          !.gor[g].pc = "idle"]
  /\ UNCHANGED otherThanSafe

\* the body of Len, the deferred RUnlock and the return
SafeLen(g) ==
  /\ safe.pc = "running"
  /\ safe.gor[g].pc = "body"
  /\ safe.gor[g].op = "Len"
  /\ safe' = [safe EXCEPT !.gor[g].ret = [NoRet EXCEPT !.n = safe.items.len],
                          !.mu.readers = safe.mu.readers \ {g},
                          !.gor[g].pc = "idle"]
  /\ UNCHANGED otherThanSafe

\* the body of ToSlice, the deferred RUnlock and the return
SafeToSlice(g) ==
  /\ safe.pc = "running"
  /\ safe.gor[g].pc = "body"
  /\ safe.gor[g].op = "ToSlice"
  /\ LET r == CopySlice(safe.heap, safe.items)
     IN safe' = [safe EXCEPT !.heap = r.heap,
                             !.gor[g].ret = [NoRet EXCEPT !.slice = r.slice],
                             !.mu.readers = safe.mu.readers \ {g},
                             !.gor[g].pc = "idle"]
  /\ UNCHANGED otherThanSafe

\* the caller of ToSlice writes into the slice it was given
SafeModifyResult(g) ==
  /\ safe.pc = "running"
  /\ safe.gor[g].pc = "idle"
  /\ safe.gor[g].op = "ToSlice"
  /\ ~safe.gor[g].ret.modified
  /\ \E i \in 1..safe.gor[g].ret.slice.len :
       safe' = [safe EXCEPT !.heap[safe.gor[g].ret.slice.arr][i] = Marker,
                            !.gor[g].ret.modified = TRUE]
  /\ UNCHANGED otherThanSafe

NextSafe ==
  \/ SafeNew
  \/ \E g \in Goroutines :
       \/ SafeCallAppend(g)
       \/ SafeCallRead(g)
       \/ SafeAppendRead(g)
       \/ SafeAppendStore(g)
       \/ SafeGet(g)
       \/ SafeLen(g)
       \/ SafeToSlice(g)
       \/ SafeModifyResult(g)

SpecSafe == InitLibrary /\ [][NextSafe]_<<vars, demoVars>>

\* goroutine g has returned from a call of op
Returned(g, op) == safe.gor[g].pc = "idle" /\ safe.gor[g].op = op

\* some Append has been called and has not returned
AppendInProgress ==
  \E g \in Goroutines : safe.gor[g].op = "Append" /\ safe.gor[g].pc # "idle"

(***************************************************************************)
(* C22: SafeSlice is thread-safe.  For any interleaving of Append, Get,    *)
(* Len and ToSlice calls from concurrent goroutines no Append is lost:     *)
(* the slice holds every item whose Append has returned, each item once,   *)
(* after N Appends have completed Len is N, and what Len and ToSlice       *)
(* return covers the Appends that had returned before the call.  ToSlice   *)
(* returns a copy: it shares no array with the SafeSlice, and writing into *)
(* it leaves the items of the SafeSlice as they were.                      *)
(***************************************************************************)
C22_SafeSliceLosesNoAppend ==
  safe.pc = "running"
    => LET items == Cells(safe.heap, safe.items)
       IN /\ NoDup(items)
          /\ safe.completed \subseteq SeqRange(items)
          /\ SeqRange(items) \subseteq 1..safe.started
          /\ ~AppendInProgress => Len(items) = Cardinality(safe.completed)
          /\ \A g \in Goroutines :
               /\ Returned(g, "Len")
                    => safe.gor[g].ret.n \in safe.gor[g].seen..safe.started
               /\ Returned(g, "ToSlice")
                    => \/ safe.gor[g].ret.slice.arr = 0
                       \/ safe.gor[g].ret.slice.arr # safe.items.arr
               /\ (Returned(g, "ToSlice") /\ ~safe.gor[g].ret.modified)
                    => LET r == Cells(safe.heap, safe.gor[g].ret.slice)
                       IN /\ NoDup(r)
                          /\ Len(r) >= safe.gor[g].seen
                          /\ SeqRange(r) \subseteq 1..safe.started

\* two Appends made by two goroutines, and a caller that wrote into its
\* copy of both items
C22_Witness ==
  /\ safe.pc = "running"
  /\ safe.completed = {1, 2}
  /\ Cells(safe.heap, safe.items) = <<1, 2>>
  /\ \E g, h \in Goroutines :
       /\ g # h
       /\ Returned(h, "Append")
       /\ safe.gor[h].arg = 1
       /\ Returned(g, "ToSlice")
       /\ safe.gor[g].ret.modified
       /\ safe.gor[g].ret.slice.len = 2

(***************************************************************************)
(* part_003: racConditionExample and incrementUnsafe.  unsafeCounter++ is  *)
(* a load of the variable followed by a store of the loaded value plus     *)
(* one; nothing orders the loads and stores of different goroutines.       *)
(***************************************************************************)
\* the goroutines started (5 in the source)
NumIncrementers == 3

\* the increments each goroutine makes (1000 in the source)
Increments == 2

Incrementers == 1..NumIncrementers

\* an increment that adds two
PlusTwo(reg) == reg + 2

\* the value unsafeCounter++ stores for the value it loaded
PlusOne(reg) == reg + 1

otherThanRace ==
  <<vars, cb, cbObs, sw, swObs, safe, pool, pipe, prodcons, owt>>

\* racConditionExample up to wg.Wait(): unsafeCounter = 0, and for each
\* goroutine wg.Add(1) and the go statement
RaceStart ==
  /\ race.pc = "idle"
  /\ race' = [pc |-> "wait", unsafeCounter |-> 0, wg |-> NumIncrementers,
              gor |-> [g \in Incrementers |-> [pc |-> "load", i |-> 0, reg |-> 0]],
              printed |-> -1]
  /\ UNCHANGED otherThanRace

\* incrementUnsafe: i < 1000 holds and unsafeCounter is loaded
IncrementLoad(g) ==
  /\ race.pc = "wait"
  /\ race.gor[g].pc = "load"
  /\ race.gor[g].i < Increments
  /\ race' = [race EXCEPT !.gor[g].reg = race.unsafeCounter,
                          !.gor[g].pc = "store"]
  /\ UNCHANGED otherThanRace

\* incrementUnsafe: the incremented value is stored, i++
IncrementStore(g) ==
  /\ race.pc = "wait"
  /\ race.gor[g].pc = "store"
  /\ race' = [race EXCEPT !.unsafeCounter = PlusOne(race.gor[g].reg),
                          !.gor[g].reg = 0,
                          !.gor[g].i = race.gor[g].i + 1,
                          !.gor[g].pc = "load"]
  /\ UNCHANGED otherThanRace

\* incrementUnsafe: the loop has ended, the deferred wg.Done() runs
IncrementDone(g) ==
  /\ race.pc = "wait"
  /\ race.gor[g].pc = "load"
  /\ race.gor[g].i >= Increments
  /\ race' = [race EXCEPT !.wg = race.wg - 1, !.gor[g].pc = "done"]
  /\ UNCHANGED otherThanRace

\* wg.Wait() returns and the counter is printed
RaceWaitReturns ==
  /\ race.pc = "wait"
  /\ race.wg = 0
  /\ race' = [race EXCEPT !.pc = "done", !.printed = race.unsafeCounter]
  /\ UNCHANGED otherThanRace

NextRace ==
  \/ RaceStart
  \/ \E g \in Incrementers :
       \/ IncrementLoad(g)
       \/ IncrementStore(g)
       \/ IncrementDone(g)
  \/ RaceWaitReturns

SpecRace == InitLibrary /\ [][NextRace]_<<vars, demoVars>>

(***************************************************************************)
(* C23 as stated: in racConditionExample, once wg.Wait returns after the   *)
(* goroutines have each run their unsynchronised increments, unsafeCounter *)
(* equals their number times the increments of each (5000).                *)
(***************************************************************************)
C23_CounterIsTotal ==
  race.pc = "done" => race.unsafeCounter = NumIncrementers * Increments

(***************************************************************************)
(* C23, amended: once wg.Wait returns every goroutine has finished its     *)
(* increments and unsafeCounter no longer changes, but increments may have *)
(* been lost: the counter is at least 1 and at most the total.             *)
(***************************************************************************)
C23_CounterAtMostTotal ==
  race.pc = "done"
    => /\ \A g \in Incrementers :
            race.gor[g].pc = "done" /\ race.gor[g].i = Increments
       /\ race.printed = race.unsafeCounter
       /\ race.unsafeCounter \in 1..(NumIncrementers * Increments)

\* a run that lost all increments but two
C23_Witness ==
  /\ race.pc = "done"
  /\ race.unsafeCounter = 2
  /\ race.printed < NumIncrementers * Increments

(***************************************************************************)
(* Channels.  All channels of the demonstrations are buffered: a send      *)
(* waits while the buffer is full, a receive waits while the buffer is     *)
(* empty and the channel is open; a send on a closed channel panics, a     *)
(* receive from a closed and empty channel reports ok = false.             *)
(***************************************************************************)
\* make(chan T, cap)
MakeChan(cap) == [buf |-> <<>>, cap |-> cap, closed |-> FALSE]

\* a send on c does not wait (it may panic)
SendReady(c) == c.closed \/ Len(c.buf) < c.cap

\* a receive from c does not wait (it may report ok = false)
RecvReady(c) == c.buf # <<>> \/ c.closed

\* c after c <- v on an open channel
Sent(c, v) == [c EXCEPT !.buf = Append(c.buf, v)]

\* c after <-c on a channel that holds a value
Received(c) == [c EXCEPT !.buf = Tail(c.buf)]

\* c after close(c)
Closed(c) == [c EXCEPT !.closed = TRUE]

(***************************************************************************)
(* part_003: goroutinePoolExample and processTask.                         *)
(***************************************************************************)
\* const numWorkers (3 in the source)
numWorkers == 2

\* const numTasks (10 in the source); both channels have this capacity
numTasks == 3

Workers == 1..numWorkers
Tasks == 1..numTasks

\* a closing goroutine that does not wait for the workers
WorkersDoneOrNot(wg) == TRUE

\* wg.Wait() returns
WorkersDone(wg) == wg = 0

otherThanPool ==
  <<vars, cb, cbObs, sw, swObs, safe, race, pipe, prodcons, owt>>

\* goroutinePoolExample up to the loop that sends the tasks: the channels,
\* and for each worker wg.Add(1) and the go statement.  taker[t] is the set
\* of workers that received task t.
PoolStart ==
  /\ pool.pc = "idle"
  /\ pool' = [pc |-> "send", i |-> 1,
              tasks |-> MakeChan(numTasks),
              results |-> MakeChan(numTasks),
              wg |-> numWorkers,
              worker |-> [w \in Workers |-> [pc |-> "range", task |-> 0]],
              closer |-> "none",
              collected |-> <<>>,
              taker |-> [t \in Tasks |-> {}],
              panicked |-> FALSE]
  /\ UNCHANGED otherThanPool

\* tasks <- i
PoolSendTask ==
  /\ pool.pc = "send"
  /\ ~pool.panicked
  /\ pool.i <= numTasks
  /\ SendReady(pool.tasks)
  /\ pool' = [pool EXCEPT !.tasks = Sent(pool.tasks, pool.i), !.i = pool.i + 1]
  /\ UNCHANGED otherThanPool

\* close(tasks), and the go statement of the goroutine that closes results
PoolCloseTasks ==
  /\ pool.pc = "send"
  /\ ~pool.panicked
  /\ pool.i > numTasks
  /\ pool' = [pool EXCEPT !.tasks = Closed(pool.tasks), !.closer = "wait",
                          !.pc = "collect"]
  /\ UNCHANGED otherThanPool

\* processTask: for task := range tasks takes a task, or ends on the closed
\* and empty channel, after which the deferred wg.Done() runs
WorkerRange(w) ==
  /\ pool.pc \in {"send", "collect", "done"}
  /\ ~pool.panicked
  /\ pool.worker[w].pc = "range"
  /\ RecvReady(pool.tasks)
  /\ IF pool.tasks.buf # <<>>
     THEN LET task == Head(pool.tasks.buf)
          IN pool' = [pool EXCEPT !.tasks = Received(pool.tasks),
                                  !.worker[w] = [pc |-> "send", task |-> task],
                                  !.taker[task] = pool.taker[task] \cup {w}]
     ELSE pool' = [pool EXCEPT !.worker[w].pc = "done", !.wg = pool.wg - 1]
  /\ UNCHANGED otherThanPool

\* processTask: results <- task * task
WorkerSendResult(w) ==
  /\ pool.pc \in {"send", "collect", "done"}
  /\ ~pool.panicked
  /\ pool.worker[w].pc = "send"
  /\ SendReady(pool.results)
  /\ IF pool.results.closed
     THEN pool' = [pool EXCEPT !.panicked = TRUE]
     ELSE pool' = [pool EXCEPT
            !.results = Sent(pool.results,
                             pool.worker[w].task * pool.worker[w].task),
            !.worker[w] = [pc |-> "range", task |-> 0]]
  /\ UNCHANGED otherThanPool

\* the closing goroutine: wg.Wait() returns, close(results)
PoolCloseResults ==
  /\ pool.pc \in {"collect", "done"}
  /\ ~pool.panicked
  /\ pool.closer = "wait"
  /\ WorkersDone(pool.wg)
  /\ pool' = [pool EXCEPT !.results = Closed(pool.results), !.closer = "done"]
  /\ UNCHANGED otherThanPool

\* for result := range results takes a result, or ends on the closed and
\* empty channel
PoolCollect ==
  /\ pool.pc = "collect"
  /\ ~pool.panicked
  /\ RecvReady(pool.results)
  /\ IF pool.results.buf # <<>>
     THEN pool' = [pool EXCEPT
            !.results = Received(pool.results),
            !.collected = Append(pool.collected, Head(pool.results.buf))]
     ELSE pool' = [pool EXCEPT !.pc = "done"]
  /\ UNCHANGED otherThanPool

NextPool ==
  \/ PoolStart
  \/ PoolSendTask
  \/ PoolCloseTasks
  \/ \E w \in Workers : WorkerRange(w) \/ WorkerSendResult(w)
  \/ PoolCloseResults
  \/ PoolCollect

\* every goroutine that can take a step is scheduled in the end
FairPool ==
  /\ WF_<<vars, demoVars>>(PoolStart \/ PoolSendTask \/ PoolCloseTasks
                              \/ PoolCollect)
  /\ \A w \in Workers :
       WF_<<vars, demoVars>>(WorkerRange(w) \/ WorkerSendResult(w))
  /\ WF_<<vars, demoVars>>(PoolCloseResults)

SpecPool == InitLibrary /\ [][NextPool]_<<vars, demoVars>> /\ FairPool

\* how often v occurs in q
Occurrences(q, v) == Cardinality({i \in DOMAIN q : q[i] = v})

\* the pool between its start and its end
PoolSafe ==
  pool.pc # "idle"
    => /\ ~pool.panicked
       /\ \A t \in Tasks : Cardinality(pool.taker[t]) <= 1
       /\ \A t \in Tasks : Occurrences(pool.collected, t * t) <= 1
       /\ pool.results.closed
            => /\ pool.wg = 0
               /\ \A w \in Workers : pool.worker[w].pc = "done"
       /\ pool.pc = "done"
            => /\ \A t \in Tasks : Cardinality(pool.taker[t]) = 1
               /\ \A t \in Tasks : Occurrences(pool.collected, t * t) = 1
               /\ Len(pool.collected) = numTasks
       /\ pool.pc # "done" => ENABLED NextPool

(***************************************************************************)
(* C24: in goroutinePoolExample, for every interleaving of the workers,    *)
(* each task is taken by exactly one worker, exactly one result            *)
(* (task * task) per task is collected, the results channel is closed only *)
(* after every worker has finished sending (no send on a closed channel),  *)
(* and the collecting loop terminates without deadlock.                    *)
(***************************************************************************)
C24_PoolCollectsEveryResultOnce == []PoolSafe /\ <>(pool.pc = "done")

\* the loop has ended with the results of two workers that worked at the
\* same time, collected in another order than the tasks were sent
C24_Witness ==
  /\ pool.pc = "done"
  /\ pool.collected = <<4, 1, 9>>
  /\ pool.taker[1] # pool.taker[2]
  /\ pool.closer = "done"

(***************************************************************************)
(* internal/context.go: pipelineContextExample and its three stages.  The  *)
(* context becomes done at a moment the goroutines do not control (the     *)
(* timeout, or the deferred cancel when the example returns); a select     *)
(* with several ready cases takes any of them.  Stage k reads chan[k] and  *)
(* writes chan[k + 1]: chan[1] is input, chan[4] is output.                *)
(***************************************************************************)
\* the values the input goroutine sends (10 in the source)
NumInputs == 2

\* the capacity of the four channels (5 in the source)
PipeCap == 1

Stages == 1..3

\* the processing of stage k: value * 2, value + 10, value / 2
StageResult(k, value) ==
  CASE k = 1 -> value * 2
    [] k = 2 -> value + 10
    [] OTHER -> value \div 2

\* an inner select without the case <-ctx.Done()
SendSelectIgnoresDone(ctxDone) == FALSE

\* the case <-ctx.Done() of the select around a stage's send is ready
SendSelectSeesDone(ctxDone) == ctxDone

otherThanPipe ==
  <<vars, cb, cbObs, sw, swObs, safe, race, pool, prodcons, owt>>

\* pipelineContextExample: the context, the channels and the five go
\* statements.  closes[c] counts the close calls on chan[c].
PipeStart ==
  /\ pipe.pc = "idle"
  /\ pipe' = [pc |-> "running",
              ctxDone |-> FALSE,
              chan |-> [c \in 1..4 |-> MakeChan(PipeCap)],
              sender |-> [pc |-> "select", i |-> 1],
              stage |-> [k \in Stages |-> [pc |-> "select", result |-> 0]],
              reader |-> "select",
              closes |-> [c \in 1..4 |-> 0],
              panicked |-> FALSE]
  /\ UNCHANGED otherThanPipe

\* the timeout passes or cancel() is called
PipeCtxDone ==
  /\ pipe.pc = "running"
  /\ ~pipe.ctxDone
  /\ pipe' = [pipe EXCEPT !.ctxDone = TRUE]
  /\ UNCHANGED otherThanPipe

\* chan[c] is closed by a deferred close; closing a closed channel panics
CloseBy(p, c) ==
  IF p.chan[c].closed THEN [p EXCEPT !.panicked = TRUE]
  ELSE [p EXCEPT !.chan[c] = Closed(p.chan[c]), !.closes[c] = p.closes[c] + 1]

\* the input goroutine: case input <- i
SenderSend ==
  /\ pipe.pc = "running" /\ ~pipe.panicked
  /\ pipe.sender.pc = "select"
  /\ pipe.sender.i <= NumInputs
  /\ SendReady(pipe.chan[1])
  /\ IF pipe.chan[1].closed
     THEN pipe' = [pipe EXCEPT !.panicked = TRUE]
     ELSE pipe' = [pipe EXCEPT !.chan[1] = Sent(pipe.chan[1], pipe.sender.i),
                               !.sender.i = pipe.sender.i + 1]
  /\ UNCHANGED otherThanPipe

\* the input goroutine: case <-ctx.Done(), return, deferred close(input)
SenderCanceled ==
  /\ pipe.pc = "running" /\ ~pipe.panicked
  /\ pipe.sender.pc = "select"
  /\ pipe.sender.i <= NumInputs
  /\ pipe.ctxDone
  /\ pipe' = [CloseBy(pipe, 1) EXCEPT !.sender.pc = "done"]
  /\ UNCHANGED otherThanPipe

\* the input goroutine: the loop has ended, deferred close(input)
SenderEnds ==
  /\ pipe.pc = "running" /\ ~pipe.panicked
  /\ pipe.sender.pc = "select"
  /\ pipe.sender.i > NumInputs
  /\ pipe' = [CloseBy(pipe, 1) EXCEPT !.sender.pc = "done"]
  /\ UNCHANGED otherThanPipe

\* stage k, outer select: case value, ok := <-input; on !ok it returns and
\* the deferred close(output) runs
StageReceive(k) ==
  /\ pipe.pc = "running" /\ ~pipe.panicked
  /\ pipe.stage[k].pc = "select"
  /\ RecvReady(pipe.chan[k])
  /\ IF pipe.chan[k].buf # <<>>
     THEN pipe' = [pipe EXCEPT
            !.chan[k] = Received(pipe.chan[k]),
            !.stage[k] = [pc |-> "send",
                          result |-> StageResult(k, Head(pipe.chan[k].buf))]]
     ELSE pipe' = [CloseBy(pipe, k + 1) EXCEPT !.stage[k].pc = "done"]
  /\ UNCHANGED otherThanPipe

\* stage k, outer select: case <-ctx.Done()
StageCanceled(k) ==
  /\ pipe.pc = "running" /\ ~pipe.panicked
  /\ pipe.stage[k].pc = "select"
  /\ pipe.ctxDone
  /\ pipe' = [CloseBy(pipe, k + 1) EXCEPT !.stage[k].pc = "done"]
  /\ UNCHANGED otherThanPipe

\* stage k, inner select: case output <- result
StageSend(k) ==
  /\ pipe.pc = "running" /\ ~pipe.panicked
  /\ pipe.stage[k].pc = "send"
  /\ SendReady(pipe.chan[k + 1])
  /\ IF pipe.chan[k + 1].closed
     THEN pipe' = [pipe EXCEPT !.panicked = TRUE]
     ELSE pipe' = [pipe EXCEPT
            !.chan[k + 1] = Sent(pipe.chan[k + 1], pipe.stage[k].result),
            !.stage[k] = [pc |-> "select", result |-> 0]]
  /\ UNCHANGED otherThanPipe

\* stage k, inner select: case <-ctx.Done()
StageSendCanceled(k) ==
  /\ pipe.pc = "running" /\ ~pipe.panicked
  /\ pipe.stage[k].pc = "send"
  /\ SendSelectSeesDone(pipe.ctxDone)
  /\ pipe' = [CloseBy(pipe, k + 1) EXCEPT
                !.stage[k] = [pc |-> "done", result |-> 0]]
  /\ UNCHANGED otherThanPipe

\* the output goroutine: case result, ok := <-output
ReaderReceive ==
  /\ pipe.pc = "running" /\ ~pipe.panicked
  /\ pipe.reader = "select"
  /\ RecvReady(pipe.chan[4])
  /\ IF pipe.chan[4].buf # <<>>
     THEN pipe' = [pipe EXCEPT !.chan[4] = Received(pipe.chan[4])]
     ELSE pipe' = [pipe EXCEPT !.reader = "done"]
  /\ UNCHANGED otherThanPipe

\* the output goroutine: case <-ctx.Done()
ReaderCanceled ==
  /\ pipe.pc = "running" /\ ~pipe.panicked
  /\ pipe.reader = "select"
  /\ pipe.ctxDone
  /\ pipe' = [pipe EXCEPT !.reader = "done"]
  /\ UNCHANGED otherThanPipe

SenderStep == SenderSend \/ SenderCanceled \/ SenderEnds
StageStep(k) ==
  StageReceive(k) \/ StageCanceled(k) \/ StageSend(k) \/ StageSendCanceled(k)
ReaderStep == ReaderReceive \/ ReaderCanceled

NextPipe ==
  \/ PipeStart
  \/ PipeCtxDone
  \/ SenderStep
  \/ \E k \in Stages : StageStep(k)
  \/ ReaderStep

\* every goroutine that can take a step is scheduled in the end; nothing is
\* assumed about when, or whether, the context becomes done
FairPipe ==
  /\ WF_<<vars, demoVars>>(PipeStart)
  /\ WF_<<vars, demoVars>>(SenderStep)
  /\ \A k \in Stages : WF_<<vars, demoVars>>(StageStep(k))
  /\ WF_<<vars, demoVars>>(ReaderStep)

SpecPipe == InitLibrary /\ [][NextPipe]_<<vars, demoVars>> /\ FairPipe

PipeAllDone ==
  /\ pipe.pc = "running"
  /\ pipe.sender.pc = "done"
  /\ \A k \in Stages : pipe.stage[k].pc = "done"
  /\ pipe.reader = "done"

\* no send on a closed channel and no second close; a goroutine that has
\* ended has closed the channel it writes, once
PipeSafe ==
  pipe.pc = "running"
    => /\ ~pipe.panicked
       /\ \A c \in 1..4 : pipe.closes[c] <= 1
       /\ pipe.closes[1] = (IF pipe.sender.pc = "done" THEN 1 ELSE 0)
       /\ \A k \in Stages :
            pipe.closes[k + 1] = (IF pipe.stage[k].pc = "done" THEN 1 ELSE 0)

(***************************************************************************)
(* C27: in pipelineContextExample every goroutine (input sender, the three *)
(* stages, output reader) eventually terminates once the input is          *)
(* exhausted or the context is done, whichever comes first and at whatever *)
(* point of a stage's loop it happens; each stage closes its output        *)
(* channel exactly once on exit and no goroutine sends on a closed channel.*)
(***************************************************************************)
C27_PipelineTerminatesClosesOnce == []PipeSafe /\ <>PipeAllDone

\* all goroutines have ended after the context became done: the input
\* goroutine before its last send, the reader before it took the first
\* value, which went through the three stages
C27_Witness ==
  /\ PipeAllDone
  /\ pipe.ctxDone
  /\ pipe.sender.i = NumInputs
  /\ pipe.chan[4].buf = <<6>>
  /\ \A c \in 1..4 : pipe.closes[c] = 1

(***************************************************************************)
(* part_004: producerConsumerExample, producer and consumer.  Durations    *)
(* are in milliseconds and time passes in steps of TickMs.  time.Sleep(d)  *)
(* keeps a goroutine from running for at least d: rem is the time it still *)
(* has to sleep.  Nothing bounds how long a goroutine that may run waits   *)
(* for the scheduler, or how long a send or a print takes.                 *)
(***************************************************************************)
\* the sends of one producer
ItemsEach == 5

\* the capacity of ch
ProdConsCap == 5

\* the sleep of a producer after a send, of the consumer after a receive,
\* of the example before close(ch) and after it
ProducerSleepMs == 100
ConsumerSleepMs == 150
CloseAfterMs == 2000
GraceMs == 500

\* the step of the clock: the durations above are multiples of it
TickMs == 50

Producers == {1, 2}

\* the time left of a sleep after TickMs more have passed
Slept(rem) == IF rem > TickMs THEN rem - TickMs ELSE 0

otherThanProdCons ==
  <<vars, cb, cbObs, sw, swObs, safe, race, pool, pipe, owt>>

\* producerConsumerExample: the channel, the three go statements; the
\* example then sleeps
ProdConsStart ==
  /\ prodcons.pc = "idle"
  /\ prodcons' = [pc |-> "sleep", rem |-> CloseAfterMs,
                  ch |-> MakeChan(ProdConsCap),
                  producer |-> [id \in Producers |->
                                  [pc |-> "loop", i |-> 1, rem |-> 0]],
                  consumer |-> [pc |-> "range", rem |-> 0],
                  consumed |-> 0,
                  panicked |-> FALSE]
  /\ UNCHANGED otherThanProdCons

\* TickMs pass
ProdConsTick ==
  /\ prodcons.pc \notin {"idle"}
  /\ ~prodcons.panicked
  /\ \/ prodcons.rem > 0
     \/ prodcons.consumer.rem > 0
     \/ \E id \in Producers : prodcons.producer[id].rem > 0
  /\ prodcons' = [prodcons EXCEPT
       !.rem = Slept(prodcons.rem),
       !.consumer.rem = Slept(prodcons.consumer.rem),
       !.producer = [id \in Producers |->
                       [prodcons.producer[id] EXCEPT
                          !.rem = Slept(prodcons.producer[id].rem)]]]
  /\ UNCHANGED otherThanProdCons

\* producer: ch <- product, the print and the sleep
ProducerSend(id) ==
  /\ prodcons.pc \notin {"idle"}
  /\ ~prodcons.panicked
  /\ prodcons.producer[id].pc = "loop"
  /\ prodcons.producer[id].rem = 0
  /\ prodcons.producer[id].i <= ItemsEach
  /\ SendReady(prodcons.ch)
  /\ IF prodcons.ch.closed
     THEN prodcons' = [prodcons EXCEPT !.panicked = TRUE]
     ELSE prodcons' = [prodcons EXCEPT
            !.ch = Sent(prodcons.ch, id * 10 + prodcons.producer[id].i),
            !.producer[id].i = prodcons.producer[id].i + 1,
            !.producer[id].rem = ProducerSleepMs]
  /\ UNCHANGED otherThanProdCons

\* producer: the loop has ended
ProducerReturns(id) ==
  /\ prodcons.pc \notin {"idle"}
  /\ ~prodcons.panicked
  /\ prodcons.producer[id].pc = "loop"
  /\ prodcons.producer[id].rem = 0
  /\ prodcons.producer[id].i > ItemsEach
  /\ prodcons' = [prodcons EXCEPT !.producer[id].pc = "done"]
  /\ UNCHANGED otherThanProdCons

\* consumer: for product := range ch takes a product, prints it and sleeps,
\* or ends on the closed and empty channel
ConsumerRange ==
  /\ prodcons.pc \notin {"idle"}
  /\ ~prodcons.panicked
  /\ prodcons.consumer.pc = "range"
  /\ prodcons.consumer.rem = 0
  /\ RecvReady(prodcons.ch)
  /\ IF prodcons.ch.buf # <<>>
     THEN prodcons' = [prodcons EXCEPT
            !.ch = Received(prodcons.ch),
            !.consumed = prodcons.consumed + 1,
            !.consumer.rem = ConsumerSleepMs]
     ELSE prodcons' = [prodcons EXCEPT !.consumer.pc = "done"]
  /\ UNCHANGED otherThanProdCons

\* the example: the first sleep is over, close(ch), the second sleep
ProdConsClose ==
  /\ prodcons.pc = "sleep"
  /\ ~prodcons.panicked
  /\ prodcons.rem = 0
  /\ prodcons' = [prodcons EXCEPT !.ch = Closed(prodcons.ch),
                                  !.pc = "grace", !.rem = GraceMs]
  /\ UNCHANGED otherThanProdCons

\* the example returns
ProdConsReturns ==
  /\ prodcons.pc = "grace"
  /\ ~prodcons.panicked
  /\ prodcons.rem = 0
  /\ prodcons' = [prodcons EXCEPT !.pc = "returned"]
  /\ UNCHANGED otherThanProdCons

NextProdCons ==
  \/ ProdConsStart
  \/ ProdConsTick
  \/ \E id \in Producers : ProducerSend(id) \/ ProducerReturns(id)
  \/ ConsumerRange
  \/ ProdConsClose
  \/ ProdConsReturns

SpecProdCons == InitLibrary /\ [][NextProdCons]_<<vars, demoVars>>

(***************************************************************************)
(* C28: in producerConsumerExample the channel is closed by the main       *)
(* goroutine only after both producers have completed all five sends each, *)
(* so no producer ever sends on a closed channel, and the consumer         *)
(* receives all ten products before its range loop ends.                   *)
(***************************************************************************)
C28_ClosedOnlyAfterAllSends ==
  prodcons.pc # "idle"
    => /\ prodcons.ch.closed
            => \A id \in Producers : prodcons.producer[id].i > ItemsEach
       /\ ~prodcons.panicked
       /\ prodcons.consumer.pc = "done"
            => prodcons.consumed = Cardinality(Producers) * ItemsEach

(***************************************************************************)
(* internal/functions.go: operationWithTimeout.  Time is counted as in the *)
(* producer-consumer example: the worker sleeps for at least               *)
(* OperationMs, the timer of time.After(timeout) fires once timeout has    *)
(* passed, and a select with both cases ready takes either.                *)
(***************************************************************************)
\* the capacity of done
DoneCap == 1

\* the worker's sleep
OperationMs == 3000

\* the timeouts the function is called with (timeoutExample passes 2000)
Timeouts == {0, 1000, 2000, 3000, 4000}

\* a done channel without a buffer: make(chan string)
DoneChanUnbuffered == MakeChan(0)

\* done := make(chan string, 1)
DoneChan == MakeChan(DoneCap)

NoReturn == [result |-> "", err |-> "", count |-> 0]

otherThanOwt ==
  <<vars, cb, cbObs, sw, swObs, safe, race, pool, pipe, prodcons>>

\* operationWithTimeout(timeout) up to its select: the channel, the go
\* statement, the timer.  ret.count counts the returns of the call.
OwtCall ==
  /\ owt.pc = "idle"
  /\ \E timeout \in Timeouts :
       owt' = [pc |-> "select", timeout |-> timeout, timer |-> timeout,
               done |-> DoneChan,
               worker |-> [pc |-> "sleep", rem |-> OperationMs],
               ret |-> NoReturn]
  /\ UNCHANGED otherThanOwt

\* TickMs pass
OwtTick ==
  /\ owt.pc # "idle"
  /\ owt.timer > 0 \/ owt.worker.rem > 0
  /\ owt' = [owt EXCEPT !.timer = Slept(owt.timer),
                        !.worker.rem = Slept(owt.worker.rem)]
  /\ UNCHANGED otherThanOwt

\* the worker: the sleep is over, done <- "Operation completed", and the
\* goroutine ends
OwtWorkerSend ==
  /\ owt.pc # "idle"
  /\ owt.worker.pc = "sleep"
  /\ owt.worker.rem = 0
  /\ SendReady(owt.done)
  /\ owt' = [owt EXCEPT !.done = Sent(owt.done, "Operation completed"),
                        !.worker.pc = "done"]
  /\ UNCHANGED otherThanOwt

\* case result := <-done: return result, nil
OwtSelectResult ==
  /\ owt.pc = "select"
  /\ owt.done.buf # <<>>
  /\ owt' = [owt EXCEPT
       !.done = Received(owt.done),
       !.ret = [result |-> Head(owt.done.buf), err |-> "nil",
                count |-> owt.ret.count + 1],
       !.pc = "returned"]
  /\ UNCHANGED otherThanOwt

\* case <-time.After(timeout): return "", errors.New("operation timeout")
OwtSelectTimeout ==
  /\ owt.pc = "select"
  /\ owt.timer = 0
  /\ owt' = [owt EXCEPT
       !.ret = [result |-> "", err |-> "operation timeout",
                count |-> owt.ret.count + 1],
       !.pc = "returned"]
  /\ UNCHANGED otherThanOwt

NextOwt ==
  \/ OwtCall
  \/ OwtTick
  \/ OwtWorkerSend
  \/ OwtSelectResult
  \/ OwtSelectTimeout

\* time passes, and a goroutine that can take a step is scheduled in the end
FairOwt ==
  /\ WF_<<vars, demoVars>>(OwtCall)
  /\ WF_<<vars, demoVars>>(OwtTick)
  /\ WF_<<vars, demoVars>>(OwtWorkerSend)
  /\ WF_<<vars, demoVars>>(OwtSelectResult \/ OwtSelectTimeout)

SpecOwt == InitLibrary /\ [][NextOwt]_<<vars, demoVars>> /\ FairOwt

\* one return with one of the two pairs, and a worker whose send need not
\* wait
OwtSafe ==
  owt.pc # "idle"
    => /\ owt.worker.pc = "sleep" => SendReady(owt.done) /\ ~owt.done.closed
       /\ owt.ret.count = (IF owt.pc = "returned" THEN 1 ELSE 0)
       /\ owt.pc = "returned"
            => \/ owt.ret.result = "Operation completed" /\ owt.ret.err = "nil"
               \/ owt.ret.result = "" /\ owt.ret.err = "operation timeout"

(***************************************************************************)
(* C29: operationWithTimeout returns exactly one of (result, nil) or       *)
(* ("", operation timeout), and in both cases its worker goroutine         *)
(* eventually terminates: the send on the one-slot buffered channel never  *)
(* blocks, also when the timeout branch was taken and nobody receives.     *)
(***************************************************************************)
C29_OneReturnWorkerEnds ==
  []OwtSafe /\ <>(owt.pc = "returned" /\ owt.worker.pc = "done")

\* the worker has ended after the call returned the timeout: its value
\* stays in the channel
C29_Witness ==
  /\ owt.pc = "returned"
  /\ owt.timeout = 2000
  /\ owt.ret.err = "operation timeout"
  /\ owt.worker.pc = "done"
  /\ owt.done.buf = <<"Operation completed">>
====
